---- MODULE Spec2Model ----
(***************************************************************************)
(* Model of the DynamoDB-backed event store of src/src/index.ts (lines     *)
(* 1-139): EventStore.write submits one transactWriteItems call of two     *)
(* items built by metadataUpdate and eventInsert, EventStore.read issues   *)
(* one query over the stream's partition and decodes the items.            *)
(*                                                                         *)
(* The table is a set of items.  An item is a record with the attributes   *)
(* PK and SK and either VERSION (the '_METADATA' item) or TYPE and DATA    *)
(* (an 'EVENT-<ksuid>' item).  A sort key is the tuple <<kind, ts, rnd>>:  *)
(* kind 1 is '_METADATA', kind 0 is 'EVENT-' followed by a KSUID, whose    *)
(* string form sorts as its (timestamp in seconds, random payload) pair;   *)
(* 'E' sorts before '_', so tuples compared lexicographically order sort   *)
(* keys as DynamoDB orders the strings.                                    *)
(*                                                                         *)
(* Assumption on the KSUID generator: the 128-bit random payload never     *)
(* repeats within one second for one stream (WriteCall draws a fresh one). *)
(***************************************************************************)
EXTENDS Integers, Sequences, FiniteSets, TLC

\* ---- bounds of the model ----
MaxTime == 1
MaxPayload == 2
MaxWrites == 3
MaxExpected == 2

\* ---- program constants: enum Version ----
Version_Any == -1
Version_None == -2

Streams == {"A", "B"}
Writers == {"w1", "w2"}
Readers == {"r1", "r2"}

\* JavaScript values used as event data, and the events callers write
DataValues == {"num:5", "num:7"}
Events == [type : {"PonyJumped"}, data : DataValues]
JumpSparkle == [type |-> "PonyJumped", data |-> "num:5"]
\* an event whose data is a JavaScript value that JSON cannot represent
JumpNaN == [type |-> "PonyJumped", data |-> "NaN"]
\* the values JSON text represents
IsJSONValue(d) == d \in {"num:5", "num:7", "null"}

\* expectedVersion arguments tried by callers
ExpectedVersions == {Version_None, Version_Any} \cup (0 .. MaxExpected)
\* a negative number that is no member of enum Version
OtherNegative == -3

Payloads == 0 .. (MaxPayload - 1)

NoReq == [stream |-> "-"]
NoResult == [outcome |-> "-"]
NoSnap == [name |-> "-"]

VARIABLES table, now, pc, req, last, snap, log
vars == <<table, now, pc, req, last, snap, log>>

\* ---- sort keys ----
METADATA == <<1, 0, 0>>
EventSK(id) == <<0, id[1], id[2]>>

\* lexicographic order of sort keys (DynamoDB orders string sort keys by bytes)
SKLess(a, b) ==
  \/ a[1] < b[1]
  \/ a[1] = b[1] /\ a[2] < b[2]
  \/ a[1] = b[1] /\ a[2] = b[2] /\ a[3] < b[3]

\* ---- JSON.stringify / JSON.parse on the data values ----
JSONstringify(d) ==
  CASE d = "num:5" -> "5"
    [] d = "num:7" -> "7"
    [] d = "NaN" -> "null"
    [] d = "null" -> "null"

\* JSON.parse throws a SyntaxError on text that is not JSON
SyntaxError == "SyntaxError"

JSONparse(s) ==
  CASE s = "5" -> "num:5"
    [] s = "7" -> "num:7"
    [] s = "null" -> "null"
    [] OTHER -> SyntaxError

\* metadataUpdate without the two conditions (the earlier draft of the store)
metadataUpdate_unconditional(stream, expectedVersion) ==
  [Key |-> [PK |-> stream, SK |-> METADATA], ConditionExpression |-> "", expected |-> 0]

\* metadataUpdate keyed by a constant instead of the stream name
metadataUpdate_sharedKey(stream, expectedVersion) ==
  [Key |-> [PK |-> "table", SK |-> METADATA],
   ConditionExpression |->
     IF expectedVersion > -1 THEN "#version = :expected"
     ELSE IF expectedVersion = Version_None THEN "attribute_not_exists(PK)" ELSE "",
   expected |-> IF expectedVersion > -1 THEN expectedVersion ELSE 0]

\* metadataUpdate testing 'expectedVersion <= Version.None' for the first condition
metadataUpdate_noneOrBelow(stream, expectedVersion) ==
  [Key |-> [PK |-> stream, SK |-> METADATA],
   ConditionExpression |->
     IF expectedVersion > -1 THEN "#version = :expected"
     ELSE IF expectedVersion <= Version_None THEN "attribute_not_exists(PK)" ELSE "",
   expected |-> IF expectedVersion > -1 THEN expectedVersion ELSE 0]

\* ---- metadataUpdate(table, stream, expectedVersion) ----
metadataUpdate(stream, expectedVersion) ==
  LET update == [Key |-> [PK |-> stream, SK |-> METADATA],
                 ConditionExpression |-> "",
                 expected |-> 0]
      u1 == IF expectedVersion = Version_None
              THEN [update EXCEPT !.ConditionExpression = "attribute_not_exists(PK)"]
              ELSE update
      u2 == IF expectedVersion > -1
              THEN [u1 EXCEPT !.ConditionExpression = "#version = :expected",
                              !.expected = expectedVersion]
              ELSE u1
  IN  u2

\* eventInsert with the constant sort key 'event' (the earliest draft)
eventInsert_fixedKey(stream, event, id) ==
  [Item |-> [PK |-> stream, SK |-> <<0, 0, 0>>,
             TYPE |-> event.type, DATA |-> JSONstringify(event.data)]]

\* eventInsert with a sort key made of the timestamp alone
eventInsert_timestampKey(stream, event, id) ==
  [Item |-> [PK |-> stream, SK |-> <<0, id[1], 0>>,
             TYPE |-> event.type, DATA |-> JSONstringify(event.data)]]

\* ---- eventInsert(table, stream, event), id the generated KSUID ----
eventInsert(stream, event, id) ==
  [Item |-> [PK |-> stream, SK |-> EventSK(id),
             TYPE |-> event.type, DATA |-> JSONstringify(event.data)]]

\* ksuid.randomSync(): timestamp of the current second and a random payload
ksuidRandomSync(t) == {<<t, r>> : r \in Payloads}

\* ---- the backend: items, conditions, transactWriteItems, query ----
ItemsAt(tbl, key) == {i \in tbl : i.PK = key.PK /\ i.SK = key.SK}

ConditionHolds(tbl, update) ==
  LET found == ItemsAt(tbl, update.Key)
  IN  CASE update.ConditionExpression = "" -> TRUE
        [] update.ConditionExpression = "attribute_not_exists(PK)" -> found = {}
        [] update.ConditionExpression = "#version = :expected" ->
             \E i \in found : "VERSION" \in DOMAIN i /\ i.VERSION = update.expected

\* 'SET #version = :increment' instead of ADD
ApplyUpdate_set(tbl, update) ==
  (tbl \ ItemsAt(tbl, update.Key))
    \cup {[PK |-> update.Key.PK, SK |-> update.Key.SK, VERSION |-> 1]}

\* an update that creates the missing version record at 0 and only then counts
ApplyUpdate_fromZero(tbl, update) ==
  LET found == ItemsAt(tbl, update.Key)
  IN  IF found = {}
        THEN tbl \cup {[PK |-> update.Key.PK, SK |-> update.Key.SK, VERSION |-> 0]}
        ELSE (tbl \ found) \cup {[i EXCEPT !.VERSION = i.VERSION + 1] : i \in found}

\* UpdateExpression 'ADD #version :increment' with :increment = 1
ApplyUpdate(tbl, update) ==
  LET found == ItemsAt(tbl, update.Key)
  IN  IF found = {}
        THEN tbl \cup {[PK |-> update.Key.PK, SK |-> update.Key.SK, VERSION |-> 1]}
        ELSE (tbl \ found) \cup {[i EXCEPT !.VERSION = i.VERSION + 1] : i \in found}

\* Put replaces the item with the same key
ApplyPut(tbl, put) ==
  (tbl \ ItemsAt(tbl, [PK |-> put.Item.PK, SK |-> put.Item.SK])) \cup {put.Item}

\* the put sent on its own before the conditional update, not in a transaction
TransactWriteItems_putFirst(tbl, items) ==
  IF ConditionHolds(tbl, items.Update)
    THEN [ok |-> TRUE, table |-> ApplyPut(ApplyUpdate(tbl, items.Update), items.Put)]
    ELSE [ok |-> FALSE, table |-> ApplyPut(tbl, items.Put)]

\* all-or-nothing: result is the new table, or the old one when cancelled
TransactWriteItems(tbl, items) ==
  IF ConditionHolds(tbl, items.Update)
    THEN [ok |-> TRUE, table |-> ApplyPut(ApplyUpdate(tbl, items.Update), items.Put)]
    ELSE [ok |-> FALSE, table |-> tbl]

RECURSIVE SortBySK(_)
SortBySK(S) ==
  IF S = {} THEN <<>>
  ELSE LET m == CHOOSE i \in S : \A j \in S : j = i \/ SKLess(i.SK, j.SK)
       IN  <<m>> \o SortBySK(S \ {m})

\* a scan of the whole table instead of a query of one partition
Query_scan(tbl, stream) == SortBySK(tbl)

\* KeyConditionExpression 'PK = :stream', items in ascending sort-key order
Query(tbl, stream) == SortBySK({i \in tbl : i.PK = stream})

\* ---- EventStore.read: the loop over result.Items ----
\* the loop without JSON.parse: data is the stored text
RECURSIVE ReadLoop_rawData(_, _, _)
ReadLoop_rawData(items, version, events) ==
  IF items = <<>> THEN [version |-> version, events |-> events, threw |-> ""]
  ELSE LET item == Head(items)
       IN  IF "VERSION" \in DOMAIN item
             THEN ReadLoop_rawData(Tail(items), item.VERSION, events)
             ELSE ReadLoop_rawData(Tail(items), version,
                                   Append(events, [type |-> item.TYPE, data |-> item.DATA]))

RECURSIVE ReadLoop(_, _, _)
ReadLoop(items, version, events) ==
  IF items = <<>> THEN [version |-> version, events |-> events, threw |-> ""]
  ELSE LET item == Head(items)
       IN  IF "VERSION" \in DOMAIN item
             THEN ReadLoop(Tail(items), item.VERSION, events)
             ELSE IF JSONparse(item.DATA) = SyntaxError
                    THEN [version |-> version, events |-> events, threw |-> SyntaxError]
                    ELSE ReadLoop(Tail(items), version,
                                  Append(events, [type |-> item.TYPE,
                                                  data |-> JSONparse(item.DATA)]))

\* the EventStream returned by read, or the error thrown out of its loop
ReadResult(tbl, stream) ==
  LET r == ReadLoop(Query(tbl, stream), 0, <<>>)
  IN  IF r.threw = ""
        THEN [name |-> stream, version |-> r.version, events |-> r.events, threw |-> ""]
        ELSE [name |-> "-", version |-> 0, events |-> <<>>, threw |-> r.threw]

\* the sequence produced by one iteration of the generator events():
\* for (let i = 0; i < events.length; i++) yield events[i]
RECURSIVE Yield(_, _)
Yield(events, i) ==
  IF i < Len(events) THEN <<events[i + 1]>> \o Yield(events, i + 1) ELSE <<>>

EventsGenerator(stream) == Yield(stream.events, 0)

\* ---- observers used by the properties ----
VersionRecords(tbl, s) == {i \in tbl : i.PK = s /\ "VERSION" \in DOMAIN i}
EventRecords(tbl, s) == {i \in tbl : i.PK = s /\ "VERSION" \notin DOMAIN i}
\* the stream's current version: 0 when it has no version record
CurrentVersion(tbl, s) ==
  IF VersionRecords(tbl, s) = {} THEN 0
  ELSE (CHOOSE i \in VersionRecords(tbl, s) : TRUE).VERSION

UsedIds(s) ==
  {<<i.SK[2], i.SK[3]>> : i \in EventRecords(table, s)}
    \cup {<<req[w].items.Put.Item.SK[2], req[w].items.Put.Item.SK[3]>> :
            w \in {x \in Writers : pc[x] = "inflight" /\ req[x].stream = s}}

Started == Cardinality({w \in Writers : pc[w] = "inflight"})
TotalAccepted == Len(log["A"]) + Len(log["B"])

\* ---- initial state: an empty table ----
Init ==
  /\ table = {}
  /\ now = 0
  /\ pc = [w \in Writers |-> "idle"]
  /\ req = [w \in Writers |-> NoReq]
  /\ last = NoResult
  /\ snap = [r \in Readers |-> NoSnap]
  /\ log = [s \in Streams |-> <<>>]

\* EventStore.write up to the await: the two TransactItems are built; the wall
\* clock read by ksuid.randomSync is at or after its previous reading
WriteCall(w, s, e, ev) ==
  /\ pc[w] = "idle"
  /\ TotalAccepted + Started < MaxWrites
  /\ \E t \in now .. MaxTime :
       /\ now' = t
       /\ \E id \in ksuidRandomSync(t) \ UsedIds(s) :
            req' = [req EXCEPT ![w] =
                      [stream |-> s, event |-> e, expectedVersion |-> ev,
                       items |-> [Update |-> metadataUpdate(s, ev),
                                  Put |-> eventInsert(s, e, id)],
                       raced |-> FALSE]]
  /\ pc' = [pc EXCEPT ![w] = "inflight"]
  /\ UNCHANGED <<table, last, snap, log>>

\* a store whose returned streams are live views: an accepted write refreshes
\* the snapshots of its stream
Transact_liveSnapshot(w) ==
  /\ pc[w] = "inflight"
  /\ LET r == TransactWriteItems(table, req[w].items)
         s == req[w].stream
     IN  /\ table' = r.table
         /\ last' = [outcome |-> IF r.ok THEN "ok" ELSE "ConditionalCheckFailed",
                     stream |-> s,
                     expectedVersion |-> req[w].expectedVersion,
                     contended |-> FALSE,
                     raced |-> req[w].raced,
                     accepted |-> Len(log[s]),
                     before |-> CurrentVersion(table, s)]
         /\ log' = IF r.ok
                     THEN [log EXCEPT ![s] = Append(@, [event |-> req[w].event,
                                                        expectedVersion |-> req[w].expectedVersion])]
                     ELSE log
         /\ snap' = [q \in Readers |->
                       IF snap[q] # NoSnap /\ snap[q].stream = s
                         THEN [snap[q] EXCEPT !.version = ReadResult(r.table, s).version,
                                              !.events = ReadResult(r.table, s).events]
                         ELSE snap[q]]
  /\ pc' = [pc EXCEPT ![w] = "idle"]
  /\ req' = [req EXCEPT ![w] = NoReq]
  /\ UNCHANGED now

\* the backend evaluates the transaction; write returns or throws
Transact(w) ==
  /\ pc[w] = "inflight"
  /\ LET r == TransactWriteItems(table, req[w].items)
         s == req[w].stream
     IN  /\ table' = r.table
         /\ last' = [outcome |-> IF r.ok THEN "ok" ELSE "ConditionalCheckFailed",
                     stream |-> s,
                     expectedVersion |-> req[w].expectedVersion,
                     contended |-> \E v \in Writers \ {w} :
                                     /\ pc[v] = "inflight"
                                     /\ req[v].stream = s
                                     /\ req[v].expectedVersion = req[w].expectedVersion,
                     raced |-> req[w].raced,
                     accepted |-> Len(log[s]),
                     before |-> CurrentVersion(table, s)]
         /\ log' = IF r.ok
                     THEN [log EXCEPT ![s] = Append(@, [event |-> req[w].event,
                                                        expectedVersion |-> req[w].expectedVersion])]
                     ELSE log
         /\ req' = [v \in Writers |->
                      IF v = w THEN NoReq
                      ELSE IF /\ r.ok /\ pc[v] = "inflight" /\ req[v].stream = s
                              /\ req[v].expectedVersion = req[w].expectedVersion
                             THEN [req[v] EXCEPT !.raced = TRUE]
                             ELSE req[v]]
  /\ pc' = [pc EXCEPT ![w] = "idle"]
  /\ UNCHANGED <<now, snap>>

\* any other backend failure: the call throws, nothing is applied
TransactFail(w) ==
  /\ pc[w] = "inflight"
  /\ last' = [outcome |-> "BackendError"]
  /\ pc' = [pc EXCEPT ![w] = "idle"]
  /\ req' = [req EXCEPT ![w] = NoReq]
  /\ UNCHANGED <<table, now, snap, log>>

\* a read that consumes what it returns: the stream's event items are deleted
Read_destructive(r, s) ==
  /\ snap' = [snap EXCEPT ![r] =
                [name |-> ReadResult(table, s).name,
                 version |-> ReadResult(table, s).version,
                 events |-> ReadResult(table, s).events,
                 threw |-> ReadResult(table, s).threw,
                 stream |-> s,
                 at |-> Len(log[s])]]
  /\ table' = table \ EventRecords(table, s)
  /\ UNCHANGED <<now, pc, req, last, log>>

\* EventStore.read: one query, then the decoding loop
Read(r, s) ==
  /\ snap' = [snap EXCEPT ![r] =
                [name |-> ReadResult(table, s).name,
                 version |-> ReadResult(table, s).version,
                 events |-> ReadResult(table, s).events,
                 threw |-> ReadResult(table, s).threw,
                 stream |-> s,
                 at |-> Len(log[s])]]
  /\ UNCHANGED <<table, now, pc, req, last, log>>

\* the stream has an event item whose DATA is not JSON text
HasMalformed(tbl, s) == \E i \in EventRecords(tbl, s) : JSONparse(i.DATA) = SyntaxError

\* another client of the table puts an item under the stream's key whose DATA
\* is not JSON text (eventInsert itself only stores JSON.stringify output)
ForeignPut(s) ==
  /\ ~HasMalformed(table, s)
  /\ \E id \in ksuidRandomSync(now) \ UsedIds(s) :
       table' = ApplyPut(table, [Item |-> [PK |-> s, SK |-> EventSK(id),
                                           TYPE |-> "PonyJumped", DATA |-> "{"]])
  /\ UNCHANGED <<now, pc, req, last, snap, log>>

\* the steps of write calls by writers W on streams S with events E and
\* expected versions V
WriteSteps(W, S, E, V) ==
  \/ \E w \in W, s \in S, e \in E, ev \in V : WriteCall(w, s, e, ev)
  \/ \E w \in W : Transact(w)
  \/ \E w \in W : TransactFail(w)

ReadSteps(S) == \E r \in Readers, s \in S : Read(r, s)

\* reads by the readers R only
ReadStepsBy(R, S) == \E r \in R, s \in S : Read(r, s)

\* version control on one stream: concurrent writers, every expected version
Next == WriteSteps(Writers, {"A"}, {JumpSparkle}, ExpectedVersions)
Spec == Init /\ [][Next]_vars

\* version control on two streams: one caller, every expected version
NextStreams == WriteSteps({"w1"}, Streams, {JumpSparkle}, ExpectedVersions)
SpecStreams == Init /\ [][NextStreams]_vars

\* unconditional writes of one caller to two streams, and reads
NextRead ==
  \/ WriteSteps({"w1"}, Streams, {JumpSparkle}, {Version_Any})
  \/ ReadSteps(Streams)
SpecRead == Init /\ [][NextRead]_vars

\* expected versions below zero on one stream: Any, None and another negative
NextNegative ==
  WriteSteps({"w1"}, {"A"}, {JumpSparkle}, {OtherNegative, Version_Any, Version_None, 1})
SpecNegative == Init /\ [][NextNegative]_vars

\* a table that another client shares: writes, reads and a malformed item
NextForeign ==
  \/ WriteSteps({"w1"}, {"A"}, {JumpSparkle}, {Version_Any})
  \/ ReadSteps({"A"})
  \/ ForeignPut("A")
SpecForeign == Init /\ [][NextForeign]_vars

\* concurrent unconditional writers of one stream, and reads
NextConc ==
  \/ WriteSteps(Writers, {"A"}, Events, {Version_Any})
  \/ ReadStepsBy({"r1"}, {"A"})
SpecConc == Init /\ [][NextConc]_vars

\* events with data inside and outside JSON, written to one stream, and reads
NextData ==
  \/ WriteSteps({"w1"}, {"A"}, {JumpSparkle, JumpNaN}, {Version_Any})
  \/ ReadSteps({"A"})
SpecData == Init /\ [][NextData]_vars

\* distinguishable events written to one stream by one caller that awaits
\* each unconditional write, and reads
NextSeq ==
  \/ WriteSteps({"w1"}, {"A"}, Events, {Version_Any})
  \/ ReadSteps({"A"})
SpecSeq == Init /\ [][NextSeq]_vars

\* ---- helpers of the properties ----
ItemsOf(tbl, s) == {i \in tbl : i.PK = s}
\* a write call of writer w returns or throws in this step
Returns(w) == pc[w] = "inflight" /\ pc'[w] = "idle"
Evaluated == last.outcome \in {"ok", "ConditionalCheckFailed"}
LogEvents(s) == [i \in 1 .. Len(log[s]) |-> log[s][i].event]

\* C1: a write with a non-negative expected version N is accepted if and only
\* if the stream's current version (0 for a never-written stream) equals N
\* when the transaction is evaluated.
C1_AcceptedIffVersionEquals ==
  (Evaluated /\ last.expectedVersion >= 0)
    => ((last.outcome = "ok") <=> (last.before = last.expectedVersion))

\* C2: a write expecting Version.None is accepted only as the first accepted
\* write of its stream, and is rejected once the stream has an accepted write.
C2_NoneOnlyFirst ==
  /\ \A s \in Streams : \A i \in 1 .. Len(log[s]) :
       log[s][i].expectedVersion = Version_None => i = 1
  /\ (Evaluated /\ last.expectedVersion = Version_None /\ last.accepted > 0)
       => last.outcome = "ConditionalCheckFailed"

C2_Witness ==
  /\ last.outcome = "ConditionalCheckFailed"
  /\ last.expectedVersion = Version_None
  /\ Len(log[last.stream]) >= 1
  /\ log[last.stream][1].expectedVersion = Version_None

\* C3: a read after N accepted unconditional writes to a fresh stream returns
\* version N and the N events in the order in which the writes were accepted.
C3_ReadInAcceptedOrder ==
  [][\A r \in Readers :
       snap'[r] # snap[r] =>
         /\ snap'[r].version = Len(log[snap'[r].stream])
         /\ snap'[r].events = LogEvents(snap'[r].stream)]_vars

\* C4: of the writes to one stream that expect the same version N, at most one
\* is accepted, and it is the write that moves the version from N to N + 1.
C4_OneWinnerPerVersion ==
  \A s \in Streams : \A i, j \in 1 .. Len(log[s]) :
    log[s][i].expectedVersion >= 0 =>
      /\ i = log[s][i].expectedVersion + 1
      /\ log[s][j].expectedVersion = log[s][i].expectedVersion => i = j

\* a write expecting N was accepted while another write to the same stream
\* expecting N was in flight
C4_Witness ==
  /\ last.outcome = "ok"
  /\ last.expectedVersion >= 1
  /\ last.contended
  /\ log[last.stream][last.expectedVersion + 1].expectedVersion = last.expectedVersion

\* C5: a write rejected by its expected-version condition leaves the table
\* unchanged: no event record is put, no version record is created or bumped.
C5_RejectedWriteChangesNothing ==
  [][\A w \in Writers :
       (Returns(w) /\ last'.outcome = "ConditionalCheckFailed") => table' = table]_vars

C5_Witness ==
  /\ last.outcome = "ConditionalCheckFailed"
  /\ last.before >= 1
  /\ Cardinality(EventRecords(table, last.stream)) = last.before
  /\ CurrentVersion(table, last.stream) = last.before

\* C6: every stream has at most one version record, its VERSION is the number
\* of writes accepted for the stream, and the value never decreases.
C6_VersionCountsAcceptedWrites ==
  /\ [](\A s \in Streams :
          /\ Cardinality(VersionRecords(table, s)) <= 1
          /\ \A i \in VersionRecords(table, s) : i.VERSION = Len(log[s])
          /\ VersionRecords(table, s) = {} => Len(log[s]) = 0)
  /\ [][\A s \in Streams :
          /\ CurrentVersion(table', s) >= CurrentVersion(table, s)
          /\ VersionRecords(table, s) # {} => VersionRecords(table', s) # {}]_vars

C6_Witness ==
  /\ Cardinality(VersionRecords(table, "A")) = 1
  /\ CurrentVersion(table, "A") = 2
  /\ Len(log["A"]) = 2
  /\ last.outcome = "ConditionalCheckFailed"
  /\ last.stream = "A"

\* C7: in every state the number of event records of a stream equals the value
\* of its version record (0 without a version record).
C7_EventCountEqualsVersion ==
  \A s \in Streams : Cardinality(EventRecords(table, s)) = CurrentVersion(table, s)

C7_Witness ==
  /\ Cardinality(EventRecords(table, "A")) = 3
  /\ CurrentVersion(table, "A") = 3

\* C8: read of a stream without an accepted write returns the stream's name,
\* version 0 and no events, whatever was written to other streams.
C8_ReadOfUnwrittenStream ==
  \A r \in Readers :
    (snap[r] # NoSnap /\ log[snap[r].stream] = <<>>) =>
      /\ snap[r].name = snap[r].stream
      /\ snap[r].version = 0
      /\ snap[r].events = <<>>

C8_Witness ==
  /\ snap["r1"] # NoSnap
  /\ snap["r1"].stream = "A"
  /\ snap["r1"].version = 0
  /\ snap["r1"].events = <<>>
  /\ log["A"] = <<>>
  /\ Len(log["B"]) >= 2

\* C9: a write expecting Version.None and a write expecting 0 have the same
\* outcome on every state of their stream.
C9_NoneSameAsZero ==
  \A v, w \in Writers :
    (/\ pc[v] = "inflight" /\ pc[w] = "inflight"
     /\ req[v].stream = req[w].stream
     /\ req[v].expectedVersion = Version_None
     /\ req[w].expectedVersion = 0)
      => (TransactWriteItems(table, req[v].items).ok
            <=> TransactWriteItems(table, req[w].items).ok)

\* C10: a write to one stream leaves the items of every other stream
\* unchanged, and whether it is accepted is decided by the items of its own
\* stream alone.
C10_StreamsIndependent ==
  [][\A w \in Writers :
       Returns(w) =>
         /\ \A b \in Streams \ {req[w].stream} : ItemsOf(table', b) = ItemsOf(table, b)
         /\ last'.outcome # "BackendError" =>
              ((last'.outcome = "ok")
                 <=> TransactWriteItems(ItemsOf(table, req[w].stream), req[w].items).ok)]_vars

C10_Witness ==
  /\ last.outcome = "ok"
  /\ last.stream = "A"
  /\ last.expectedVersion = 1
  /\ CurrentVersion(table, "A") = 2
  /\ CurrentVersion(table, "B") = 1
\* C11: a read leaves the table unchanged, and two reads of a stream with no
\* accepted write to it in between return the same version and events.
C11_ReadIdempotent ==
  /\ [][(\E r \in Readers : snap'[r] # snap[r]) => table' = table]_vars
  /\ [](\A r, q \in Readers :
          (/\ snap[r] # NoSnap /\ snap[q] # NoSnap
           /\ snap[r].stream = snap[q].stream
           /\ snap[r].at = snap[q].at)
            => /\ snap[r].version = snap[q].version
               /\ snap[r].events = snap[q].events)

\* two reads of stream A after its second accepted write, B written as well
C11_Witness ==
  /\ snap["r1"] # NoSnap /\ snap["r2"] # NoSnap
  /\ snap["r1"].stream = "A" /\ snap["r2"].stream = "A"
  /\ snap["r1"].at = 2 /\ snap["r2"].at = 2
  /\ Len(snap["r2"].events) = 2
  /\ Len(log["B"]) = 1
\* number of occurrences of e in a sequence
Count(seq, e) == Cardinality({i \in 1 .. Len(seq) : seq[i] = e})
\* the snapshot of reader r was taken after the last accepted write so far
Current(r) == snap[r] # NoSnap /\ snap[r].at = Len(log[snap[r].stream])

\* C12 as claimed: every accepted event is returned by read with a type and
\* data equal to the written ones.
C12_RoundTrip ==
  \A r \in Readers :
    Current(r) =>
      \A i \in 1 .. Len(log[snap[r].stream]) :
        LET e == log[snap[r].stream][i].event
        IN  Count(snap[r].events, e) = Count(LogEvents(snap[r].stream), e)

\* C12 amended: every accepted event whose data is a JSON value is returned by
\* read with a type and data equal to the written ones.
C12_RoundTripOfJSONValues ==
  \A r \in Readers :
    Current(r) =>
      \A i \in 1 .. Len(log[snap[r].stream]) :
        LET e == log[snap[r].stream][i].event
        IN  IsJSONValue(e.data) =>
              Count(snap[r].events, e) = Count(LogEvents(snap[r].stream), e)

C12_Witness ==
  /\ Current("r1")
  /\ snap["r1"].version = 2
  /\ Count(LogEvents("A"), JumpNaN) = 1
  /\ Count(LogEvents("A"), JumpSparkle) = 1
  /\ Count(snap["r1"].events, JumpSparkle) = 1
C14_SnapshotIsPointInTime ==
  [][\A w \in Writers :
       (Returns(w) /\ last'.outcome = "ok") =>
         \A r \in Readers :
           snap[r] # NoSnap =>
             /\ snap'[r] # NoSnap
             /\ snap'[r].version = snap[r].version
             /\ EventsGenerator(snap'[r]) = EventsGenerator(snap[r])]_vars

\* a snapshot of one event, and its stream two accepted writes further
C14_Witness ==
  /\ snap["r1"] # NoSnap
  /\ snap["r1"].stream = "A"
  /\ snap["r1"].version = 1
  /\ Len(EventsGenerator(snap["r1"])) = 1
  /\ CurrentVersion(table, "A") = 3
\* C16: a write expecting Version.Any that meets no backend failure is accepted
\* in every stream state, raises the version by exactly 1 and adds exactly one
\* event record; without a version record it creates one with value 1.
C16_AnyAlwaysAppends ==
  [][\A w \in Writers :
       (/\ Returns(w)
        /\ req[w].expectedVersion = Version_Any
        /\ last'.outcome # "BackendError")
         => LET s == req[w].stream
            IN  /\ last'.outcome = "ok"
                /\ CurrentVersion(table', s) = CurrentVersion(table, s) + 1
                /\ Cardinality(EventRecords(table', s))
                     = Cardinality(EventRecords(table, s)) + 1
                /\ VersionRecords(table, s) = {}
                     => \E i \in VersionRecords(table', s) : i.VERSION = 1]_vars

C16_Witness ==
  /\ last.outcome = "ok"
  /\ last.expectedVersion = Version_Any
  /\ last.before = 0
  /\ VersionRecords(table, "A") = {[PK |-> "A", SK |-> METADATA, VERSION |-> 1]}
  /\ Cardinality(EventRecords(table, "A")) = 1

C17_NoLostUpdate ==
  \A r \in Readers :
    Current(r) =>
      /\ snap[r].version = Len(log[snap[r].stream])
      /\ Len(snap[r].events) = Len(log[snap[r].stream])
      /\ \A e \in Events :
           Count(snap[r].events, e) = Count(LogEvents(snap[r].stream), e)

\* two writes that were in flight together are both accepted, then read
C17_Witness ==
  /\ last.outcome = "ok"
  /\ last.raced
  /\ last.before = 1
  /\ Current("r1")
  /\ snap["r1"].version = 2
  /\ Count(snap["r1"].events, JumpSparkle) = 1
  /\ Len(snap["r1"].events) = 2

\* s is a prefix of t
IsPrefix(s, t) == Len(s) <= Len(t) /\ \A i \in 1 .. Len(s) : s[i] = t[i]

\* C18: of two reads of a stream, the events returned by the earlier one are
\* a prefix of the events returned by the later one.
C18_AppendOnly ==
  \A r, q \in Readers :
    (/\ snap[r] # NoSnap /\ snap[q] # NoSnap
     /\ snap[r].stream = snap[q].stream
     /\ snap[r].at <= snap[q].at)
      => IsPrefix(snap[r].events, snap[q].events)

====
